---------------------------- MODULE Spec2Model ----------------------------
(* A model of SequentialBackwardSelector (sequential_backward_selector.py). *)
(* The estimator and the cross-validator are black boxes: every scoring     *)
(* call either returns some score or raises.  Scores are modelled as        *)
(* integers; only their order and their sign matter to the selector.        *)
EXTENDS Integers, Sequences, FiniteSets, TLC

(* ------------------------------ bounds --------------------------------- *)
\* the largest number of columns X.shape[1] of a feature matrix
MaxFeatures == 4
\* the number of fit calls made on one selector instance that is used again
MaxFits == 2
\* the largest number of columns of the matrices such a selector is given
MaxRefitFeatures == 1

\* the values a scoring call can return: negative, zero and two positive ones
Scores == {0 - 1, 0, 1, 2}
\* the values reduced_feature_size is constructed with (not validated)
Floors == (0 - 1)..(MaxFeatures + 1)

\* Python's None where a tuple of feature indices is expected: a value that
\* is no tuple of indices (indices are >= 0) and compares with every tuple
None == <<0 - 1>>

VARIABLES
    reduced_feature_size,      \* self.reduced_feature_size
    best_features_,            \* self.best_features_, the result log
    pc,                        \* position of the fit call
    n_features,                \* X.shape[1] of the running fit call
    feature_size,              \* local of fit
    keep_features,             \* local of fit: the retained index pool
    best_feature_combination,  \* local of fit
    best_score,                \* local of fit
    todo,                      \* what the combinations iterator still yields
    round_pool,                \* history: the pool the round enumerates
    evals,                     \* history: the scoring calls of the round
    calls,                     \* history: scoring calls made by this fit call
    fits,                      \* history: fit calls made on this instance
    log0,                      \* history: the log when this fit call began
    raisedBy                   \* history: what made this fit call raise

vars == <<reduced_feature_size, best_features_, pc, n_features, feature_size,
          keep_features, best_feature_combination, best_score, todo,
          round_pool, evals, calls, fits, log0, raisedBy>>

(* ------------------------ itertools.combinations ----------------------- *)
\* range(n) as a tuple
range(n) == [i \in 1..n |-> i - 1]

\* indices = list(range(r)), positions 1..r holding 0-based indices
FirstIndices(r) == [i \in 1..r |-> i - 1]

\* for i in reversed(range(r)): if indices[i] != i + n - r: break ; 0 = else
Pivot(indices, n, r) ==
    LET movable == {i \in 1..r : indices[i] /= (i - 1) + n - r}
    IN  IF movable = {} THEN 0
        ELSE CHOOSE i \in movable : \A j \in movable : j <= i

\* indices[i] += 1 ; for j in range(i+1, r): indices[j] = indices[j-1] + 1
NextIndices(indices, n, r) ==
    LET i == Pivot(indices, n, r)
    IN  [j \in 1..r |-> IF j < i THEN indices[j] ELSE indices[i] + 1 + (j - i)]

\* tuple(pool[i] for i in indices)
Pick(pool, indices) == [j \in 1..Len(indices) |-> pool[indices[j] + 1]]

RECURSIVE CombFrom(_, _, _)
CombFrom(pool, r, indices) ==
    <<Pick(pool, indices)>> \o
        (IF Pivot(indices, Len(pool), r) = 0 THEN <<>>
         ELSE CombFrom(pool, r, NextIndices(indices, Len(pool), r)))

\* combinations(pool, r) for a tuple pool and r >= 0, in the order it yields
combinations(pool, r) ==
    IF r > Len(pool) THEN <<>> ELSE CombFrom(pool, r, FirstIndices(r))

\* combinations(keep_features, feature_size) raises: None is not iterable
\* (TypeError), r must be non-negative (ValueError)
CombinationsRaises(pool, r) == pool = None \/ r < 0

(* ------------------------------ the code ------------------------------- *)
\* slip: the loop runs one size too far
LoopCondOffByOne(size, floor) == size >= floor - 1

\* while feature_size >= self.reduced_feature_size
LoopCond(size, floor) == size >= floor

\* slip: a tie replaces the current best
BetterOrEqual(score, best) == score >= best

\* slip: the worst combination is kept
Worse(score, best) == score < best

\* if score > best_score
Better(score, best) == score > best

\* slip: the pool is never narrowed
NextPoolUnchanged(pool, best) == pool

\* keep_features = best_feature_combination
NextPool(pool, best) == best

\* slip: a size is skipped
NextSizeSkip(size) == size - 2

\* feature_size -= 1
NextSize(size) == size - 1

\* slip: the log is replaced, not appended to
save_score_overwrite(log, num_features, score, combination) ==
    <<[featureSize |-> num_features, score |-> score, features |-> combination]>>

\* _save_score: self.best_features_.append({...})
save_score(log, num_features, score, combination) ==
    Append(log, [featureSize |-> num_features, score |-> score,
                 features |-> combination])

Init ==
    /\ reduced_feature_size \in Floors
    /\ best_features_ = <<>>
    /\ pc = "idle"
    /\ n_features = 0
    /\ feature_size = 0
    /\ keep_features = <<>>
    /\ best_feature_combination = None
    /\ best_score = 0
    /\ todo = <<>>
    /\ round_pool = <<>>
    /\ evals = <<>>
    /\ calls = 0
    /\ fits = 0
    /\ log0 = <<>>
    /\ raisedBy = "none"

\* lines 38-39: a call fit(X, y) with X.shape[1] = n begins
CallFit(n) ==
    /\ n_features' = n
    /\ feature_size' = n
    /\ keep_features' = range(n)
    /\ best_feature_combination' = None
    /\ best_score' = 0
    /\ todo' = <<>>
    /\ round_pool' = range(n)
    /\ evals' = <<>>
    /\ calls' = 0
    /\ fits' = fits + 1
    /\ log0' = best_features_
    /\ raisedBy' = "none"
    /\ pc' = "while"
    /\ UNCHANGED <<reduced_feature_size, best_features_>>

\* fit is called on the freshly constructed selector
Fit ==
    /\ pc = "idle"
    /\ \E n \in 0..MaxFeatures : CallFit(n)

\* fit is called on a selector, fresh or used: after a call returned or raised
\* (the caller caught the error) the same instance is given another matrix
FitAgain ==
    /\ pc \in {"idle", "returned", "raised"}
    /\ fits < MaxFits
    /\ \E n \in 0..MaxRefitFeatures : CallFit(n)

\* the while condition is false: fit returns None
LoopExit ==
    /\ pc = "while"
    /\ ~LoopCond(feature_size, reduced_feature_size)
    /\ pc' = "returned"
    /\ UNCHANGED <<reduced_feature_size, best_features_, n_features,
                   feature_size, keep_features, best_feature_combination,
                   best_score, todo, round_pool, evals, calls, fits, log0,
                   raisedBy>>

\* lines 42-45: a round begins, the combinations iterator is built
RoundStart ==
    /\ pc = "while"
    /\ LoopCond(feature_size, reduced_feature_size)
    /\ ~CombinationsRaises(keep_features, feature_size)
    /\ best_feature_combination' = None
    /\ best_score' = 0
    /\ todo' = combinations(keep_features, feature_size)
    /\ round_pool' = keep_features
    /\ evals' = <<>>
    /\ pc' = "for"
    /\ UNCHANGED <<reduced_feature_size, best_features_, n_features,
                   feature_size, keep_features, calls, fits, log0, raisedBy>>

\* lines 42-45: combinations(...) raises and the error leaves fit
RoundStartRaise ==
    /\ pc = "while"
    /\ LoopCond(feature_size, reduced_feature_size)
    /\ CombinationsRaises(keep_features, feature_size)
    /\ best_feature_combination' = None
    /\ best_score' = 0
    /\ evals' = <<>>
    /\ raisedBy' = "combinations"
    /\ pc' = "raised"
    /\ UNCHANGED <<reduced_feature_size, best_features_, n_features,
                   feature_size, keep_features, todo, round_pool, calls, fits,
                   log0>>

\* lines 45-49: the next combination is scored and compared
ScoreReturn ==
    /\ pc = "for"
    /\ todo /= <<>>
    /\ \E score \in Scores :
        /\ evals' = Append(evals, [comb |-> Head(todo), score |-> score])
        /\ IF Better(score, best_score)
           THEN /\ best_score' = score
                /\ best_feature_combination' = Head(todo)
           ELSE UNCHANGED <<best_score, best_feature_combination>>
    /\ todo' = Tail(todo)
    /\ calls' = calls + 1
    /\ UNCHANGED <<reduced_feature_size, best_features_, pc, n_features,
                   feature_size, keep_features, round_pool, fits, log0, raisedBy>>

\* slip: the failure of a scoring call is swallowed and the loop goes on
ScoreRaiseSwallowed ==
    /\ pc = "for"
    /\ todo /= <<>>
    /\ todo' = Tail(todo)
    /\ calls' = calls + 1
    /\ raisedBy' = "score"
    /\ UNCHANGED <<reduced_feature_size, best_features_, pc, n_features,
                   feature_size, keep_features, best_feature_combination,
                   best_score, round_pool, evals, fits, log0>>

\* line 46: _score raises (estimator or cross-validator) and nothing catches it
ScoreRaise ==
    /\ pc = "for"
    /\ todo /= <<>>
    /\ calls' = calls + 1
    /\ raisedBy' = "score"
    /\ pc' = "raised"
    /\ UNCHANGED <<reduced_feature_size, best_features_, n_features,
                   feature_size, keep_features, best_feature_combination,
                   best_score, todo, round_pool, evals, fits, log0>>

\* lines 51-53: the iterator is exhausted, the round is recorded
RoundEnd ==
    /\ pc = "for"
    /\ todo = <<>>
    /\ keep_features' = NextPool(keep_features, best_feature_combination)
    /\ best_features_' = save_score(best_features_, feature_size, best_score,
                                    best_feature_combination)
    /\ feature_size' = NextSize(feature_size)
    /\ pc' = "while"
    /\ UNCHANGED <<reduced_feature_size, n_features, best_feature_combination,
                   best_score, todo, round_pool, evals, calls, fits, log0,
                   raisedBy>>

Next ==
    \/ Fit
    \/ LoopExit
    \/ RoundStart
    \/ RoundStartRaise
    \/ ScoreReturn
    \/ ScoreRaise
    \/ RoundEnd

Spec == Init /\ [][Next]_vars

\* the same selector used for several fit calls
NextRefit ==
    \/ FitAgain
    \/ LoopExit
    \/ RoundStart
    \/ RoundStartRaise
    \/ ScoreReturn
    \/ ScoreRaise
    \/ RoundEnd

SpecRefit == Init /\ [][NextRefit]_vars

(* --------------------------- vocabulary -------------------------------- *)
Last(s) == s[Len(s)]

IsPrefix(s, t) == Len(s) <= Len(t) /\ SubSeq(t, 1, Len(s)) = s

\* the indices a tuple holds
SetOf(t) == {t[i] : i \in 1..Len(t)}

\* the subsets of S with exactly k elements
KSubsets(S, k) == {T \in SUBSET S : Cardinality(T) = k}

\* a < b in the lexicographic order of tuples of one length
LexLess(a, b) ==
    \E i \in 1..Len(a) :
        /\ a[i] < b[i]
        /\ \A j \in 1..(i - 1) : a[j] = b[j]

\* the records the running (or last) fit call has appended
RunRecords == SubSeq(best_features_, Len(log0) + 1, Len(best_features_))

\* every round of this fit call so far found a best combination
AllFound == \A i \in 1..Len(RunRecords) : RunRecords[i].features /= None

\* a round has just been recorded: evals and round_pool are that round's
RoundDone == pc = "while" /\ Len(RunRecords) > 0

\* the combinations the round's scoring calls were given, as index sets
Scored == {SetOf(evals[i].comb) : i \in 1..Len(evals)}

\* the highest score a scoring call of the round returned
RoundMax == CHOOSE m \in {evals[i].score : i \in 1..Len(evals)} :
                \A i \in 1..Len(evals) : evals[i].score <= m

\* sum over s from a to b of (s + 1)
RECURSIVE SumSizes(_, _)
SumSizes(a, b) == IF a > b THEN 0 ELSE (a + 1) + SumSizes(a + 1, b)

(* ------------------------------ claims --------------------------------- *)

\* C1: when the first fit call on a fresh selector with
\* 1 <= reduced_feature_size <= n_features returns and no round left the best
\* combination unset, the log holds n_features - reduced_feature_size + 1
\* records whose featureSize falls by 1 from n_features to
\* reduced_feature_size.
C1_RecordCount ==
    (/\ pc = "returned"
     /\ 1 <= reduced_feature_size
     /\ reduced_feature_size <= n_features
     /\ AllFound)
    => /\ Len(best_features_) = n_features - reduced_feature_size + 1
       /\ \A i \in 1..Len(best_features_) :
            best_features_[i].featureSize = n_features - (i - 1)
       /\ best_features_[1].featureSize = n_features
       /\ Last(best_features_).featureSize = reduced_feature_size

C1_Witness ==
    /\ pc = "returned"
    /\ reduced_feature_size = 1
    /\ n_features = 3
    /\ AllFound
    /\ Len(best_features_) = 3

\* C5: a fit call with reduced_feature_size > n_features does not raise,
\* makes no scoring call and leaves the log as it found it; the only step it
\* can take is to return.
C5_NoRounds ==
    (pc /= "idle" /\ reduced_feature_size > n_features)
    => /\ pc \in {"while", "returned"}
       /\ calls = 0
       /\ best_features_ = log0
       /\ pc = "while" => ENABLED LoopExit

C5_Witness ==
    /\ pc = "returned"
    /\ reduced_feature_size > n_features
    /\ n_features = 3
    /\ best_features_ = <<>>

\* C10: in a fit call where every round found a best combination, a round
\* scores each subset of its size of the retained pool exactly once and
\* nothing else: 1 call in the first round (the full index range), s + 1 calls
\* in a later round of size s; a call that returns has made
\* 1 + sum over s in reduced_feature_size..n_features-1 of (s + 1) calls,
\* at most 1 + n(n+1)/2.
C10_ScoringCalls ==
    /\ (RoundDone /\ AllFound)
       => /\ Scored = KSubsets(SetOf(round_pool), Last(RunRecords).featureSize)
          /\ Cardinality(Scored) = Len(evals)
          /\ Len(evals) = IF Len(RunRecords) = 1 THEN 1
                          ELSE Last(RunRecords).featureSize + 1
          /\ Len(RunRecords) = 1 => evals[1].comb = range(n_features)
          /\ Len(RunRecords) > 1 =>
                Len(round_pool) = Last(RunRecords).featureSize + 1
    /\ (pc = "returned" /\ AllFound /\ reduced_feature_size <= n_features)
       => /\ calls = 1 + SumSizes(reduced_feature_size, n_features - 1)
          /\ 2 * calls <= 2 + n_features * (n_features + 1)

C10_Witness ==
    /\ pc = "returned"
    /\ AllFound
    /\ n_features = 3
    /\ reduced_feature_size = 1
    /\ calls = 6


\* C2: in a fit call on a fresh selector with reduced_feature_size >= 1,
\* every record of the log has as many features as its featureSize says, all
\* of them features of the record before it (of the full index range
\* 0..n_features-1 for the first record), whatever the scoring calls return.
C2_RecordShape ==
    reduced_feature_size >= 1
    => \A i \in 1..Len(best_features_) :
        LET r == best_features_[i]
        IN  /\ r.features /= None
            /\ Len(r.features) = r.featureSize
            /\ SetOf(r.features) \subseteq
                 (IF i = 1 THEN 0..(n_features - 1)
                  ELSE SetOf(best_features_[i - 1].features))

\* C3: when two or more combinations of a round (of a fit call with
\* reduced_feature_size >= 1) share the round's highest score, the round's
\* record holds the one of them that is first in lexicographic order.
C3_TieBreak ==
    LET tied == {i \in 1..Len(evals) : evals[i].score = RoundMax}
    IN  (RoundDone /\ reduced_feature_size >= 1 /\ Cardinality(tied) >= 2)
        => /\ Last(best_features_).features /= None
           /\ \E i \in tied : evals[i].comb = Last(best_features_).features
           /\ \A i \in tied :
                \/ evals[i].comb = Last(best_features_).features
                \/ LexLess(Last(best_features_).features, evals[i].comb)

\* C4: when reduced_feature_size = n_features >= 1, a fit call on a fresh
\* selector that returns leaves exactly one record: the full index range,
\* featureSize n_features, and the score the scoring call on the full range
\* returned.
C4_SingleRound ==
    (pc = "returned" /\ reduced_feature_size = n_features /\ n_features >= 1)
    => /\ Len(best_features_) = 1
       /\ best_features_[1].features = range(n_features)
       /\ best_features_[1].featureSize = n_features
       /\ Len(evals) = 1
       /\ best_features_[1].score = evals[1].score

\* C7: a round in which some combination scored above 0 records a
\* combination of exactly its size, with distinct indices of the retained
\* pool, whose score is the highest among all subsets of that size of the
\* pool; the recorded score is the score of the recorded combination, and the
\* recorded combination is the pool of the next round.
C7_BestOfRound ==
    (RoundDone /\ \E i \in 1..Len(evals) : evals[i].score > 0)
    => LET r == Last(best_features_)
       IN  /\ r.features /= None
           /\ r.featureSize = feature_size + 1
           /\ Len(r.features) = r.featureSize
           /\ Cardinality(SetOf(r.features)) = r.featureSize
           /\ SetOf(r.features) \subseteq SetOf(round_pool)
           /\ Scored = KSubsets(SetOf(round_pool), r.featureSize)
           /\ \E i \in 1..Len(evals) :
                evals[i].comb = r.features /\ evals[i].score = r.score
           /\ r.score = RoundMax
           /\ keep_features = r.features

C7_Witness ==
    /\ RoundDone
    /\ Len(evals) = 3
    /\ evals[1].score = 1
    /\ evals[2].score = 2
    /\ evals[3].score = 0 - 1
    /\ Last(best_features_).features = <<0, 2>>

C9_ScoreFailureAborts ==
    [][raisedBy' = "score"
          => /\ pc' = "raised"
             /\ best_features_' = best_features_
             /\ evals' = evals
             /\ IsPrefix(log0', best_features_')
             /\ Len(RunRecords') = n_features' - feature_size'
             /\ \A k \in 1..Len(RunRecords') :
                  RunRecords'[k].featureSize = n_features' - (k - 1)
             /\ ~(ENABLED (ScoreReturn \/ ScoreRaise \/ RoundEnd
                           \/ RoundStart \/ LoopExit))'
      ]_vars

C9_Witness ==
    /\ pc = "raised"
    /\ raisedBy = "score"
    /\ Len(best_features_) = 1
    /\ Len(evals) = 1
    /\ feature_size = 2

\* C6 as stated: no step of any fit call removes, reorders or alters a
\* record, and the log is empty only right after construction: once a fit
\* call (on a matrix with at least one column) has returned it is not empty.
C6_NeverEmptyAgain ==
    [][/\ IsPrefix(best_features_, best_features_')
       /\ (pc' = "returned" /\ n_features' >= 1) => best_features_' /= <<>>
      ]_vars

\* C6, amended: no step of any fit call removes, reorders or alters a record,
\* the log of a later fit call is the log it found followed by its own
\* records, and a fit call that returns leaves the log empty only if it found
\* it empty and reduced_feature_size > n_features.
C6_AppendOnly ==
    [][/\ IsPrefix(best_features_, best_features_')
       /\ IsPrefix(log0', best_features_')
       /\ \A k \in 1..Len(RunRecords') :
            RunRecords'[k].featureSize = n_features' - (k - 1)
       /\ (pc' = "returned" /\ best_features_' = <<>>)
          => (log0' = <<>> /\ reduced_feature_size' > n_features')
      ]_vars

C6_Witness ==
    /\ fits = 2
    /\ pc = "returned"
    /\ Len(log0) = 2
    /\ Len(best_features_) = 4
    /\ best_features_[3].featureSize = 1

=============================================================================
